---- MODULE Spec2Model ----
(***************************************************************************)
(* Model of the Streamlit test-case automation feasibility analyzer        *)
(* (app.py): the step classifier analyze_step, the per-row                 *)
(* ThreadPoolExecutor fan-out with its as_completed loop, the groupby      *)
(* aggregation into test_case_summary, and the session_state caching of    *)
(* the two result tables across script reruns.                             *)
(*                                                                         *)
(* A Python string that the code builds by concatenation or join is kept   *)
(* as the sequence of its parts (", ".join(["a","b"]) is <<"a","b">>,      *)
(* f"Failed to analyze: {e}" is <<"Failed to analyze: ", e>>).  A line of  *)
(* a Steps cell is [pad, body]: the text body, surrounded by white space   *)
(* when pad is TRUE.  A JSON value of the model's reply is a tagged        *)
(* record.                                                                 *)
(***************************************************************************)
EXTENDS Integers, Sequences, FiniteSets, TLC

VARIABLES
  library,        \* environment: the spreadsheets the user may upload
  endpoint,       \* environment: the replies the model endpoint may give
  uploaded_file,  \* st.file_uploader's value: None or a spreadsheet
  session_state,  \* st.session_state: a function on the keys that are set
  pc,             \* main thread: "idle", "rows", "submit" or "collect"
  msg,            \* what the run reported: st.error / st.info / st.success
  button,         \* st.button("Analyze") in the last run: absent, shown, pressed
  df,             \* the spreadsheet read by pd.read_excel
  row,            \* index of the row the for loop is at
  futures,        \* per row, the futures of executor.submit, in step order
  waiting,        \* as_completed: the futures of this row not yet yielded
  all_results     \* the list all_results

vars == <<library, endpoint, uploaded_file, session_state, pc, msg, button,
          df, row, futures, waiting, all_results>>

-----------------------------------------------------------------------------
\* Bounds of the model.
MaxRows == 2
PoolSteps == 7

\* ThreadPoolExecutor(max_workers=6)
max_workers == 6

None == [t |-> "None"]

-----------------------------------------------------------------------------
\* Spreadsheets.

required_columns ==
  {"Test Case ID", "Test Description", "Steps", "Expected Result", "Actual Result"}

Line(pad, body) == [pad |-> pad, body |-> body]
Text(lines) == [t |-> "text", lines |-> lines]
\* An empty spreadsheet cell: pandas reads it as the float nan.
NaN == [t |-> "nan"]

CellSamples ==
  { Text(<<Line(FALSE, "1. A"), Line(TRUE, ""), Line(TRUE, "2. B")>>),
    Text(<<Line(TRUE, "")>>),
    NaN }

\* Row i of an n-row sheet: identifiers are unique and descend, so that the
\* sheet order and the sorted order of groupby differ.
SheetRow(n, i, cell) ==
  [id |-> n - i + 1, description |-> "desc", Steps |-> cell,
   expected |-> "exp", actual |-> "act"]

Sheet(columns, cells) ==
  [columns |-> columns,
   rows |-> [i \in 1..Len(cells) |-> SheetRow(Len(cells), i, cells[i])]]

ValidSheets ==
  { Sheet(required_columns, cells) :
      cells \in UNION { [1..n -> CellSamples] : n \in 0..MaxRows } }

\* A sheet without the Steps column, and a valid sheet of one row.
InvalidSheet ==
  Sheet(required_columns \ {"Steps"}, <<Text(<<Line(FALSE, "1. A")>>)>>)

OtherSheet == Sheet(required_columns, <<Text(<<Line(FALSE, "1. A")>>)>>)

\* What the user has at hand: one valid sheet of at most MaxRows rows, and
\* the two sheets above to upload before or after it.
Libraries == { {sheet, InvalidSheet, OtherSheet} : sheet \in ValidSheets }

\* One row of PoolSteps steps followed by a one-step row.
PoolSheet ==
  Sheet(required_columns,
        <<Text([k \in 1..PoolSteps |-> Line(FALSE, "1. A")]),
          Text(<<Line(FALSE, "2. B")>>)>>)

\* str(row["Steps"])
str(cell) == IF cell = NaN THEN <<Line(FALSE, "nan")>> ELSE cell.lines

\* s.strip()
strip(line) == line.body

\* steps = [s.strip() for s in str(row["Steps"]).split("\n") if s.strip()]
RECURSIVE StripNonEmpty(_)
StripNonEmpty(lines) ==
  IF lines = <<>> THEN <<>>
  ELSE LET rest == StripNonEmpty(Tail(lines))
       IN IF strip(Head(lines)) # "" THEN <<strip(Head(lines))>> \o rest
          ELSE rest

StepsOf(r) == StripNonEmpty(str(r.Steps))

\* Mutant: any() in place of all().
HasSomeRequiredColumn(sheet) ==
  \E col \in required_columns : col \in sheet.columns

\* all(col in df.columns for col in required_columns)
HasRequiredColumns(sheet) == \A col \in required_columns : col \in sheet.columns

-----------------------------------------------------------------------------
\* The model's reply and analyze_step.

JStr(s) == [t |-> "str", s |-> s]
JInt(n) == [t |-> "int", n |-> n]
JNull == [t |-> "null"]
JList(items) == [t |-> "list", items |-> items]
Absent == [t |-> "absent"]
JObj(f, tools, primary, conf, rat) ==
  [t |-> "obj", Feasibility |-> f, Tools |-> tools, Primary |-> primary,
   Confidence |-> conf, Rationale |-> rat]

\* client.chat raised / the content is not JSON / the content is JSON.
Raised(e) == [kind |-> "raise", err |-> e]
NotJson(e) == [kind |-> "text", err |-> e]
Json(v) == [kind |-> "json", value |-> v]

FeasibilityValues ==
  {Absent, JStr("Automatable"), JStr("Partially Automatable"),
   JStr("Not Automatable"), JStr("Maybe")}
ToolsValues ==
  {Absent, JList(<<>>), JList(<<JStr("Selenium"), JStr("Cypress")>>),
   JList(<<JStr("Selenium"), JInt(1)>>), JNull}
PrimaryValues == {Absent, JStr("Selenium"), JStr("Cypress")}
ConfidenceValues ==
  {Absent, JInt(90), JStr("90"), JStr("high"), JNull}
RationaleValues == {Absent, JStr("because")}

Replies ==
  { Raised("timed out"), NotJson("Expecting value"),
    Json(JList(<<>>)), Json(JStr("Automatable")), Json(JNull) }
  \cup
  { Json(JObj(f, tl, p, c, ra)) :
      f \in FeasibilityValues, tl \in ToolsValues, p \in PrimaryValues,
      c \in ConfidenceValues, ra \in RationaleValues }

\* The replies the endpoint gives in the runs of the whole application.
SampleReplies ==
  { Raised("timed out"),
    Json(JObj(JStr("Automatable"), JList(<<JStr("Selenium")>>),
              JStr("Selenium"), JInt(90), JStr("because"))),
    Json(JObj(JStr("Not Automatable"), JList(<<>>),
              JStr("Cypress"), Absent, Absent)),
    Json(JObj(Absent, Absent, Absent, Absent, Absent)) }

\* Outcome of an expression that may raise: [ok |-> TRUE, v |-> value] or
\* [ok |-> FALSE, err |-> str(e)].
Ok(v) == [ok |-> TRUE, v |-> v]
Err(e) == [ok |-> FALSE, err |-> e]

\* result.get(key, default) for a value that is passed through unchanged.
Get(value, default) == IF value = Absent THEN default ELSE value.s

\* ", ".join(result.get("Recommended Tools", []))
RECURSIVE JoinItems(_)
JoinItems(items) ==
  IF items = <<>> THEN Ok(<<>>)
  ELSE IF Head(items).t # "str"
       THEN Err("sequence item: expected str instance")
       ELSE LET rest == JoinItems(Tail(items))
            IN IF rest.ok THEN Ok(<<Head(items).s>> \o rest.v) ELSE rest

Join(value) ==
  IF value = Absent THEN Ok(<<>>)
  ELSE IF value.t = "list" THEN JoinItems(value.items)
  ELSE Err("can only join an iterable")

\* int(result.get("Confidence Score", 0))
ParseInt(s) == IF s = "90" THEN Ok(90) ELSE Err("invalid literal for int()")

\* Mutant: a value that cannot be coerced counts as 0.
Int_Lenient(value) ==
  IF value = Absent THEN Ok(0)
  ELSE IF value.t = "int" THEN Ok(value.n)
  ELSE IF value.t = "str" /\ value.s = "90" THEN Ok(90)
  ELSE Ok(0)

Int_(value) ==
  IF value = Absent THEN Ok(0)
  ELSE IF value.t = "int" THEN Ok(value.n)
  ELSE IF value.t = "str" THEN ParseInt(value.s)
  ELSE Err("int() argument must be a string or a number")

\* The except branch of analyze_step.
ErrorResult(step_text, e) ==
  [Step |-> step_text, Feasibility |-> "Error", Tools |-> <<"N/A">>,
   Primary |-> "N/A", Confidence |-> 0,
   Rationale |-> <<"Failed to analyze: ", e>>]

\* The failure the try block of analyze_step ends with, if any.
TryFailure(reply) ==
  IF reply.kind # "json" THEN Err(reply.err)
  ELSE IF reply.value.t # "obj" THEN Err("object has no attribute 'get'")
  ELSE IF ~Join(reply.value.Tools).ok THEN Join(reply.value.Tools)
  ELSE IF ~Int_(reply.value.Confidence).ok THEN Int_(reply.value.Confidence)
  ELSE Ok(TRUE)

analyze_step(step_text, reply) ==
  IF ~TryFailure(reply).ok THEN ErrorResult(step_text, TryFailure(reply).err)
  ELSE LET result == reply.value
       IN [Step |-> step_text,
           Feasibility |-> Get(result.Feasibility, "Unknown"),
           Tools |-> Join(result.Tools).v,
           Primary |-> Get(result.Primary, "Unknown"),
           Confidence |-> Int_(result.Confidence).v,
           Rationale |-> <<Get(result.Rationale, "No rationale provided.")>>]

-----------------------------------------------------------------------------
\* Aggregation (test_case_summary).

\* result.update({...}) in the as_completed loop
WithRow(result, r) ==
  [TestCaseID |-> r.id, Description |-> r.description, Step |-> result.Step,
   Feasibility |-> result.Feasibility, Tools |-> result.Tools,
   Primary |-> result.Primary, Confidence |-> result.Confidence,
   Rationale |-> result.Rationale, Expected |-> r.expected,
   Actual |-> r.actual]

\* The rows of result_df whose Test Case ID is test_id, in result_df's order.
Group(result_df, test_id) ==
  SelectSeq(result_df, LAMBDA rec : rec.TestCaseID = test_id)

\* The keys of result_df.groupby("Test Case ID"), ascending.
RECURSIVE Ascending(_)
Ascending(S) ==
  IF S = {} THEN <<>>
  ELSE LET m == CHOOSE x \in S : \A y \in S : x <= y
       IN <<m>> \o Ascending(S \ {m})

GroupKeys(result_df) ==
  Ascending({ result_df[i].TestCaseID : i \in DOMAIN result_df })

\* Mutant: any() in place of the first all().
case_feasibility_any(feasibilities) ==
  IF \E i \in DOMAIN feasibilities : feasibilities[i] = "Automatable"
    THEN "Automatable"
  ELSE IF \A i \in DOMAIN feasibilities : feasibilities[i] = "Not Automatable"
    THEN "Not Automatable"
  ELSE "Partially Automatable"

case_feasibility(feasibilities) ==
  IF \A i \in DOMAIN feasibilities : feasibilities[i] = "Automatable"
    THEN "Automatable"
  ELSE IF \A i \in DOMAIN feasibilities : feasibilities[i] = "Not Automatable"
    THEN "Not Automatable"
  ELSE "Partially Automatable"

\* group["Recommended Primary Tool"].iloc[0]
primary_tool(group) == group[1].Primary

CaseVerdict(test_id, group) ==
  [TestCaseID |-> test_id,
   Description |-> group[1].Description,
   TotalSteps |-> Len(group),
   Feasibility |->
     case_feasibility([i \in DOMAIN group |-> group[i].Feasibility]),
   Primary |-> primary_tool(group)]

test_case_summary(result_df) ==
  LET keys == GroupKeys(result_df)
  IN [k \in DOMAIN keys |-> CaseVerdict(keys[k], Group(result_df, keys[k]))]

-----------------------------------------------------------------------------
\* Futures of one executor.

Future(state, calls, result) ==
  [state |-> state, calls |-> calls, result |-> result]

Running(r) == { k \in DOMAIN futures[r] : futures[r][k].state = "running" }
Finished(r) == { k \in DOMAIN futures[r] : futures[r][k].state = "finished" }
InFlight == UNION { {r} \X Running(r) : r \in DOMAIN futures }

\* Mutant: a pool that starts a thread for every work item.
WorkerFree_Unbounded(r) == r \in DOMAIN futures

\* A worker thread of the pool may take the next work item.
WorkerFree(r) == Cardinality(Running(r)) < max_workers

\* Mutant: the loop is left at the first "Error" result of the row.
LoopDone_FirstFailure ==
  \/ waiting = {}
  \/ \E i \in DOMAIN all_results :
       /\ all_results[i].TestCaseID = df.rows[row].id
       /\ all_results[i].Feasibility = "Error"

\* as_completed has yielded every future of the row.
LoopDone == waiting = {}

\* The with block is left through executor.shutdown(wait=True).
PoolJoined(r) == \A k \in DOMAIN futures[r] : futures[r][k].state = "finished"

-----------------------------------------------------------------------------
\* The script.

NotStored == [k \in {} |-> <<>>]

\* The state of a fresh session, before the first interaction.
Fresh ==
  /\ uploaded_file = None
  /\ session_state = NotStored
  /\ pc = "idle"
  /\ msg = "none"
  /\ button = "absent"
  /\ df = None
  /\ row = 0
  /\ futures = <<>>
  /\ waiting = {}
  /\ all_results = <<>>

Init ==
  /\ library \in Libraries
  /\ endpoint = SampleReplies
  /\ Fresh

\* Mutant: the session state is not consulted.
MayAnalyze_NoCache(file) == file # None

\* if uploaded_file and "result_df" not in st.session_state
MayAnalyze(file) == file # None /\ "result_df" \notin DOMAIN session_state

\* One rerun of the script, up to the for loop: the user has chosen a file
\* (or none) and has or has not pressed Analyze.
Interact(file, pressed) ==
  /\ pc = "idle"
  /\ uploaded_file' = file
  /\ IF MayAnalyze(file) /\ ~HasRequiredColumns(file)
       THEN /\ msg' = "error"
            /\ button' = "absent"
            /\ df' = file
            /\ UNCHANGED <<pc, row, futures, waiting, all_results>>
     ELSE IF MayAnalyze(file) /\ pressed
       THEN /\ msg' = "info"
            /\ button' = "pressed"
            /\ df' = file
            /\ pc' = "rows"
            /\ row' = 0
            /\ futures' = [r \in DOMAIN file.rows |-> <<>>]
            /\ waiting' = {}
            /\ all_results' = <<>>
     ELSE /\ msg' = "none"
          /\ button' = IF MayAnalyze(file) THEN "shown" ELSE "absent"
          /\ df' = IF MayAnalyze(file) THEN file ELSE df
          /\ UNCHANGED <<pc, row, futures, waiting, all_results>>
  /\ UNCHANGED <<library, endpoint, session_state>>

\* for _, row in df.iterrows(): ... with ThreadPoolExecutor(...) as executor
EnterRow ==
  /\ pc = "rows"
  /\ row < Len(df.rows)
  /\ row' = row + 1
  /\ LET steps == StepsOf(df.rows[row + 1])
     IN /\ futures' = [futures EXCEPT ![row + 1] =
                         [k \in DOMAIN steps |-> Future("new", 0, <<>>)]]
        /\ pc' = IF steps = <<>> THEN "collect" ELSE "submit"
  /\ waiting' = {}
  /\ UNCHANGED <<library, endpoint, uploaded_file, session_state, msg, button,
                 df, all_results>>

\* executor.submit(analyze_step, step), for the steps in order
Submit ==
  /\ pc = "submit"
  /\ LET k == CHOOSE k \in DOMAIN futures[row] :
                /\ futures[row][k].state = "new"
                /\ \A j \in 1..(k - 1) : futures[row][j].state # "new"
     IN /\ futures' = [futures EXCEPT ![row][k].state = "pending"]
        /\ IF k = Len(futures[row])
             THEN pc' = "collect" /\ waiting' = DOMAIN futures[row]
             ELSE UNCHANGED <<pc, waiting>>
  /\ UNCHANGED <<library, endpoint, uploaded_file, session_state, msg, button,
                 df, row, all_results>>

\* A worker takes the oldest queued work item and calls client.chat.
Start(r, k) ==
  /\ futures[r][k].state = "pending"
  /\ \A j \in 1..(k - 1) : futures[r][j].state # "pending"
  /\ WorkerFree(r)
  /\ futures' = [futures EXCEPT ![r][k].state = "running",
                                ![r][k].calls = @ + 1]
  /\ UNCHANGED <<library, endpoint, uploaded_file, session_state, pc, msg,
                 button, df, row, waiting, all_results>>

\* Mutant: a step whose attempt failed is queued once more.
Finish_Retry(r, k, reply) ==
  /\ futures[r][k].state = "running"
  /\ LET res == analyze_step(StepsOf(df.rows[r])[k], reply)
     IN futures' =
          IF res.Feasibility = "Error" /\ futures[r][k].calls < 2
            THEN [futures EXCEPT ![r][k].state = "pending"]
            ELSE [futures EXCEPT ![r][k].state = "finished",
                                 ![r][k].result = <<res>>]
  /\ UNCHANGED <<library, endpoint, uploaded_file, session_state, pc, msg,
                 button, df, row, waiting, all_results>>

\* The call returns or raises, and analyze_step returns its record.
Finish(r, k, reply) ==
  /\ futures[r][k].state = "running"
  /\ futures' = [futures EXCEPT
       ![r][k].state = "finished",
       ![r][k].result = <<analyze_step(StepsOf(df.rows[r])[k], reply)>>]
  /\ UNCHANGED <<library, endpoint, uploaded_file, session_state, pc, msg,
                 button, df, row, waiting, all_results>>

\* for future in as_completed(futures): result = future.result(); ...
Collect(k) ==
  /\ pc = "collect"
  /\ k \in waiting
  /\ futures[row][k].state = "finished"
  /\ waiting' = waiting \ {k}
  /\ all_results' =
       Append(all_results, WithRow(futures[row][k].result[1], df.rows[row]))
  /\ UNCHANGED <<library, endpoint, uploaded_file, session_state, pc, msg,
                 button, df, row, futures>>

\* The as_completed loop is over and the with block is left.
ExitPool ==
  /\ pc = "collect"
  /\ LoopDone
  /\ PoolJoined(row)
  /\ pc' = "rows"
  /\ UNCHANGED <<library, endpoint, uploaded_file, session_state, msg, button,
                 df, row, futures, waiting, all_results>>

\* After the for loop: result_df, test_case_summary, and the two stores.
\* With no result at all, result_df[ordered_columns] raises KeyError and
\* the run ends with nothing stored.
Aggregate ==
  /\ pc = "rows"
  /\ row = Len(df.rows)
  /\ pc' = "idle"
  /\ IF all_results = <<>>
       THEN msg' = "exception" /\ UNCHANGED session_state
       ELSE /\ msg' = "success"
            /\ session_state' =
                 [result_df |-> all_results,
                  summary_df |-> test_case_summary(all_results)]
  /\ UNCHANGED <<library, endpoint, uploaded_file, button, df, row, futures,
                 waiting, all_results>>

Next ==
  \/ \E file \in library \cup {None, uploaded_file}, pressed \in BOOLEAN :
       Interact(file, pressed)
  \/ EnterRow
  \/ Submit
  \/ \E r \in DOMAIN futures : \E k \in DOMAIN futures[r] : Start(r, k)
  \/ \E r \in DOMAIN futures : \E k \in DOMAIN futures[r] :
       \E reply \in endpoint : Finish(r, k, reply)
  \/ \E k \in waiting : Collect(k)
  \/ ExitPool
  \/ Aggregate

Spec == Init /\ [][Next]_vars

\* The user has one sheet whose first row has more steps than the pool has
\* workers; the endpoint always gives the same reply.
InitPool ==
  /\ library = {PoolSheet}
  /\ endpoint = { Json(JObj(JStr("Automatable"), JList(<<JStr("Selenium")>>),
                            JStr("Selenium"), JInt(90), JStr("because"))) }
  /\ Fresh

SpecPool == InitPool /\ [][Next]_vars

\* The classifier alone: a one-step sheet, and an endpoint that gives one
\* reply, any of Replies.
InitClassify ==
  /\ library = { Sheet(required_columns, <<Text(<<Line(pad, "1. A")>>)>>) :
                   pad \in BOOLEAN }
  /\ \E reply \in Replies : endpoint = {reply}
  /\ Fresh

SpecClassify == InitClassify /\ [][Next]_vars

-----------------------------------------------------------------------------
\* Properties.

Stored == "result_df" \in DOMAIN session_state

\* The sheet lacks one of the five required columns.
LacksColumn(sheet) ==
  \E col \in {"Test Case ID", "Test Description", "Steps", "Expected Result",
               "Actual Result"} : col \notin sheet.columns

\* The record analyze_step returned for step k of row r.
ResultOf(r, k) == futures[r][k].result[1]

\* The number of lines of a raw Steps cell that are not blank.
RECURSIVE CountNonBlank(_)
CountNonBlank(lines) ==
  IF lines = <<>> THEN 0
  ELSE (IF Head(lines).body # "" THEN 1 ELSE 0) + CountNonBlank(Tail(lines))

RawNonEmptyLines(cell) == IF cell = NaN THEN 0 ELSE CountNonBlank(cell.lines)

VerdictsOf(test_id) ==
  { v \in { session_state.summary_df[i] : i \in DOMAIN session_state.summary_df } :
      v.TestCaseID = test_id }

\* C1: after an analysis, the primary tool of each test case's verdict is
\* the primary tool of the result of its first step in spreadsheet order,
\* whatever the order in which the futures completed.
C1_PrimaryToolOfFirstStep ==
  Stored =>
    \A r \in DOMAIN df.rows : \A v \in VerdictsOf(df.rows[r].id) :
      v.Primary = ResultOf(r, 1).Primary

\* C2: after an analysis, the step-level results of each test case appear in
\* the order of the lines of its Steps cell, whatever the completion order.
C2_StepOrderRestored ==
  Stored =>
    \A r \in DOMAIN df.rows :
      LET group == Group(session_state.result_df, df.rows[r].id)
      IN [i \in DOMAIN group |-> group[i].Step] = StepsOf(df.rows[r])

\* C3: the verdict's feasibility is "Automatable" iff every step result of
\* the test case is "Automatable", otherwise "Not Automatable" iff every one
\* is "Not Automatable", otherwise "Partially Automatable"; it is decided by
\* the step results as returned, not by the order they were collected in.
C3_ThreeWayFeasibility ==
  Stored =>
    \A r \in DOMAIN df.rows : \A v \in VerdictsOf(df.rows[r].id) :
      LET F == { ResultOf(r, k).Feasibility : k \in DOMAIN futures[r] }
      IN /\ (v.Feasibility = "Automatable") <=> (F = {"Automatable"})
         /\ (v.Feasibility = "Not Automatable") <=> (F = {"Not Automatable"})
         /\ (v.Feasibility = "Partially Automatable") <=>
              (F # {"Automatable"} /\ F # {"Not Automatable"})
         /\ ("Error" \in F \/ "Unknown" \in F) =>
              v.Feasibility = "Partially Automatable"

C3_Witness ==
  /\ Stored
  /\ \E r \in DOMAIN df.rows : \E v \in VerdictsOf(df.rows[r].id) :
       /\ v.Feasibility = "Partially Automatable"
       /\ { ResultOf(r, k).Feasibility : k \in DOMAIN futures[r] }
            = {"Automatable", "Error"}
       /\ ResultOf(r, 1).Feasibility = "Automatable"

\* C4: after an analysis, the number of step-level results of each test
\* case, and the Total Steps of its verdict, is the number of non-blank
\* lines of its raw Steps cell.
C4_StepCountIsLineCount ==
  Stored =>
    \A r \in DOMAIN df.rows :
      /\ Len(Group(session_state.result_df, df.rows[r].id))
           = RawNonEmptyLines(df.rows[r].Steps)
      /\ \A v \in VerdictsOf(df.rows[r].id) :
           v.TotalSteps = RawNonEmptyLines(df.rows[r].Steps)

\* The replies on which the call, the parse or the normalisation fails.
ReplyFails(reply) ==
  IF reply.kind # "json" THEN TRUE
  ELSE IF reply.value.t # "obj" THEN TRUE
  ELSE \/ reply.value.Confidence \in {JStr("high"), JNull}
       \/ reply.value.Tools \in {JNull, JList(<<JStr("Selenium"), JInt(1)>>)}

\* C5: whenever the call raises, the reply is not a JSON object, or a field
\* cannot be normalised, analyze_step returns the step text with feasibility
\* "Error", tools "N/A", primary tool "N/A", confidence 0 and a rationale
\* that carries the failure reason.
C5_FailureBecomesErrorResult ==
  \A r \in DOMAIN futures : \A k \in DOMAIN futures[r] : \A reply \in endpoint :
    (endpoint = {reply} /\ futures[r][k].state = "finished" /\ ReplyFails(reply))
    => LET res == ResultOf(r, k)
       IN /\ res.Step = StepsOf(df.rows[r])[k]
          /\ res.Feasibility = "Error"
          /\ res.Tools = <<"N/A">>
          /\ res.Primary = "N/A"
          /\ res.Confidence = 0
          /\ Len(res.Rationale) = 2
          /\ res.Rationale[1] = "Failed to analyze: "
          /\ res.Rationale[2] # ""
          /\ reply.kind # "json" => res.Rationale[2] = reply.err

C5_Witness ==
  \E r \in DOMAIN futures : \E k \in DOMAIN futures[r] : \E reply \in endpoint :
    /\ endpoint = {reply}
    /\ reply.kind = "json"
    /\ reply.value.t = "obj"
    /\ reply.value.Confidence = JStr("high")
    /\ reply.value.Tools = JList(<<JStr("Selenium"), JStr("Cypress")>>)
    /\ futures[r][k].state = "finished"
    /\ ResultOf(r, k).Feasibility = "Error"

\* Every step of row r has completed and has its record in results.
RowComplete(r, results) ==
  /\ PoolJoined(r)
  /\ Len(futures[r]) = Len(StepsOf(df.rows[r]))
  /\ Len(Group(results, df.rows[r].id)) = Len(StepsOf(df.rows[r]))

\* C6: the main thread is past the fan-out of a row only when every step of
\* the row has completed and its result has been collected, failed steps
\* included; aggregation and the stored tables cover every step of every
\* row.
C6_FullJoin ==
  /\ pc = "rows" => \A r \in 1..row : RowComplete(r, all_results)
  /\ pc \in {"submit", "collect"} =>
       \A r \in 1..(row - 1) : RowComplete(r, all_results)
  /\ Stored =>
       \A r \in DOMAIN df.rows : RowComplete(r, session_state.result_df)

C6_Witness ==
  /\ Stored
  /\ Len(df.rows) = 2
  /\ Len(futures[1]) = 2
  /\ ResultOf(1, 1).Feasibility = "Error"
  /\ ResultOf(1, 2).Feasibility = "Automatable"
  /\ Len(futures[2]) > 0

\* C7: at most max_workers calls are in flight, all of them for the row the
\* loop is at; the rows before it have been joined and no step of a later
\* row has been submitted.
C7_OnePoolPerCase ==
  /\ Cardinality(InFlight) <= max_workers
  /\ \A p \in InFlight : p[1] = row /\ pc \in {"submit", "collect"}
  /\ \A r \in DOMAIN futures :
       /\ r < row => PoolJoined(r)
       /\ r > row => futures[r] = <<>>
       /\ (r = row /\ pc \in {"rows", "idle"}) => PoolJoined(r)

C7_Witness ==
  /\ Cardinality(InFlight) = max_workers
  /\ \E k \in DOMAIN futures[row] : futures[row][k].state = "pending"

Errors(results) == SelectSeq(results, LAMBDA rec : rec.Feasibility = "Error")

\* C8: every step gets exactly one call: never a second one, and one for
\* each non-blank line once the analysis is complete; a failed step's
\* "Error" result is in the stored step-level results.
C8_NoRetry ==
  /\ \A r \in DOMAIN futures : \A k \in DOMAIN futures[r] :
       /\ futures[r][k].calls <= 1
       /\ futures[r][k].state \in {"running", "finished"}
            <=> futures[r][k].calls = 1
  /\ Stored =>
       \A r \in DOMAIN df.rows :
         /\ \A j \in 1..RawNonEmptyLines(df.rows[r].Steps) :
              j \in DOMAIN futures[r] /\ futures[r][j].calls = 1
         /\ Len(Errors(Group(session_state.result_df, df.rows[r].id)))
              = Cardinality({ k \in DOMAIN futures[r] :
                                ResultOf(r, k).Feasibility = "Error" })

C8_Witness ==
  /\ Stored
  /\ \E r \in DOMAIN df.rows :
       /\ RawNonEmptyLines(df.rows[r].Steps) = 2
       /\ ResultOf(r, 1).Feasibility = "Error"
       /\ futures[r][1].calls = 1
       /\ ResultOf(r, 2).Feasibility = "Automatable"

\* A rerun whose uploaded sheet lacks a required column, and a rerun that
\* neither starts an analysis nor touches the results.
InvalidUpload ==
  /\ pc = "idle"
  /\ uploaded_file' # None
  /\ LacksColumn(uploaded_file')

NoAnalysis ==
  /\ pc' = "idle"
  /\ futures' = futures
  /\ all_results' = all_results
  /\ session_state' = session_state

\* C9 as stated: a rerun with an uploaded sheet that lacks a required column
\* reports the error, starts no analysis and leaves the results alone.
C9_ErrorAlwaysReported ==
  [][InvalidUpload => (msg' = "error" /\ NoAnalysis)]_vars

\* C9 amended: such a rerun starts no analysis and leaves the results alone;
\* it reports the error when no results are stored, and says nothing when
\* results are stored.
C9_ValidationBeforeAnalysis ==
  [][InvalidUpload =>
       /\ NoAnalysis
       /\ ~Stored => msg' = "error"
       /\ Stored => msg' = "none"]_vars

C9_Witness ==
  /\ pc = "idle"
  /\ uploaded_file # None
  /\ LacksColumn(uploaded_file)
  /\ ~Stored
  /\ msg = "error"
  /\ all_results = <<>>

\* The state part and the step part of run-once caching.
C10_State ==
  /\ DOMAIN session_state \in {{}, {"result_df", "summary_df"}}
  /\ pc # "idle" =>
       /\ ~Stored
       /\ button = "pressed"
       /\ uploaded_file # None
       /\ ~LacksColumn(uploaded_file)
       /\ df = uploaded_file
  /\ Stored =>
       /\ session_state.result_df = all_results
       /\ row = Len(df.rows)
       /\ \A r \in DOMAIN df.rows : PoolJoined(r)
       /\ Len(session_state.summary_df)
            = Cardinality({ r \in DOMAIN df.rows : futures[r] # <<>> })

C10_Step ==
  /\ (pc = "idle" /\ pc' # "idle") => (~Stored /\ button' = "pressed")
  /\ (~Stored /\ Stored') => (pc = "rows" /\ row = Len(df.rows))
  /\ Stored =>
       /\ session_state' = session_state
       /\ futures' = futures
       /\ all_results' = all_results
       /\ pc' = "idle"

\* C10: an analysis starts only from a rerun with a valid uploaded file, the
\* button pressed and nothing stored; the two tables are stored together,
\* at the end of the batch; once they are stored no step changes them, makes
\* a call or starts an analysis.
C10_RunOnce == []C10_State /\ [][C10_Step]_vars

C10_Witness ==
  /\ Stored
  /\ uploaded_file # None
  /\ uploaded_file # df
  /\ ~LacksColumn(uploaded_file)
  /\ button = "absent"

====
